---- MODULE Spec2Model ----
(***************************************************************************)
(* Balance monitor of the Aliyun account bot (src/monitor.py), with the    *)
(* store tables it writes (src/database.py) and the provider client it     *)
(* calls (src/aliyun_client.py).                                           *)
(*                                                                         *)
(* The bot runs on one asyncio event loop.  A coroutine runs without       *)
(* interruption until it reaches an `await` that really suspends: in the   *)
(* monitor these are `await self.bot.send_message(...)` and                *)
(* `await asyncio.sleep(...)`; the provider call and the store calls are   *)
(* synchronous.  A task whose pc is "loop" or "iter" holds the event loop, *)
(* and nothing else steps until it suspends.  Task.cancel() makes the next *)
(* resumption of the task raise CancelledError at the await it is          *)
(* suspended on; CancelledError is a BaseException (Python >= 3.8), so     *)
(* `except Exception` does not catch it.                                   *)
(*                                                                         *)
(* Balances and thresholds are REAL columns; the model uses the integer    *)
(* amounts of the reference scenario.  The remark column and the           *)
(* timestamps are left out: no modelled decision reads them.               *)
(***************************************************************************)
EXTENDS Integers, Sequences, FiniteSets, TLC

\* ---------------------------------------------------------------- bounds
\* Provider fetches answered with a balance in one run.
MaxObs == 2
\* The same, in the runs of the reference scenario.
MaxScenarioObs == 3
\* The same, in the runs checked for progress.
MaxLiveObs == 1
\* Scheduler tasks created in one run.
MaxTasks == 2
\* Bot commands handled in one run: by the handlers alone, and next to the monitor.
MaxCommands == 2
MaxBotCommands == 1
\* Provider fetches of the monitor answered with a balance, in the runs with commands.
MaxBotObs == 2
MaxFaultObs == 2
MaxDeliveryObs == 1
MaxWriteObs == 2
MaxPaceObs == 1
MaxListCommands == 2
MaxListObs == 2
\* The updates the chats send to the chat interface.
MaxChatCommands == 2

\* ------------------------------------------------------------ input sets
\* Account uids, in the order they were bound (oldest first).
Uids == <<"u1", "u2">>
\* available_credit values the provider returns to the monitor.
Balances == {1000, 1500}
\* The same, in the runs of the reference scenario.
ScenarioBalances == {900, 1400, 2000}
\* Thresholds the accounts were bound with, by uid.  Against the balances the
\* first account meets both thresholds exactly (1000 <= 1000, 1500 - 1000 >= 500);
\* the second falls below its low threshold and never drops by its drop threshold.
LowThresholds == <<1000, 1200>>
DropThresholds == <<500, 600>>
\* Threshold arguments of /bind_aliyun, /set_aliyun_low and /set_aliyun_drop:
\* float() accepts any number.
ThresholdArgs == {-500, 500}
\* The default of Config.CHECK_INTERVAL, and the values the environment may set.
DefaultCheckInterval == 300
CheckIntervals == {30, 60, 300, 600}
\* The seconds of the fallback sleep in the except clause of _monitor_loop.
FallbackSleep == 60
\* Config.ADMIN_CHAT_IDS: validate_config() requires it to be non-empty.
ADMIN_CHAT_IDS == <<"a1", "a2">>

VARIABLES
    client,           \* AliyunClient.client is not None
    accounts,         \* table aliyun_accounts, in get_aliyun_accounts() order (newest first)
    balance_history,  \* table balance_history, in insertion order
    alert_history,    \* table alert_history, in insertion order
    messages,         \* bot.send_message calls that have resolved, in order
    blocked,          \* admin chats to which send_message raises
    provider,         \* the provider's answers in this run: the available_credit values
                      \* it may return to the monitor, and how many fetches it answers
    monitoring,       \* BalanceMonitor.monitoring
    monitor_task,     \* BalanceMonitor.monitor_task: 0 is None, else an index of tasks
    tasks,            \* every task created from _monitor_loop(), in creation order
    stop_await,       \* the task a stop_monitoring() call is awaiting, 0 when none is
    checked,          \* history variable: one entry per successful fetch of the monitor
    calls,            \* history variable: the last two calls of start/stop
    faulty,           \* the store may fail a write: the Database method logs and returns False
    query,            \* the account list an /aliyun_balance command in flight has read,
                      \* <<>> when no such command is in flight
    commands,         \* how many bot commands the admins have still to send
    CHECK_INTERVAL,   \* Config.CHECK_INTERVAL: the seconds of the interval sleep
    handled,          \* history variable: the last /bind_aliyun command handled, and
                      \* whether its provider fetch succeeded
    unbound,          \* history variable: the last /unbind_aliyun command handled, and
                      \* what unbind_aliyun_account returned to it
    credentials,      \* Config.ALIYUN_ACCESS_KEY_ID and _SECRET, the keys the client is
                      \* built from: "none", or keys the provider accepts or rejects
    system_config,    \* the keys saved in table system_config (aliyun_ak, aliyun_sk)
    waiting_for_credentials,   \* BotHandlers.waiting_for_credentials: its chat ids
    ALIYUN_RESELLER_TEST_UID,  \* Config.ALIYUN_RESELLER_TEST_UID is set
    update            \* history variable: the last update handled by /start, by the
                      \* message handler, or refused by the admin test of a command

vars == <<client, accounts, balance_history, alert_history, messages, blocked,
          provider, monitoring, monitor_task, tasks, stop_await, checked, calls,
          faulty, query, commands, handled, unbound, CHECK_INTERVAL, credentials,
          system_config, waiting_for_credentials, ALIYUN_RESELLER_TEST_UID, update>>

\* What the monitor and the account commands leave alone.
env == <<client, blocked, provider, faulty, CHECK_INTERVAL>>

\* What the command handlers keep between their steps.
bot == <<query, commands, handled, unbound>>

store == <<accounts, balance_history, alert_history>>

\* What the credential dialogue of the chat interface keeps.
chat == <<credentials, system_config, waiting_for_credentials,
          ALIYUN_RESELLER_TEST_UID, update>>

\* ------------------------------------------------------------ store rows
AccountRow(uid, low, drop, last) ==
    [uid |-> uid, low_balance_threshold |-> low, drop_threshold |-> drop,
     last_balance |-> last]

\* UPDATE aliyun_accounts SET last_balance = ? WHERE uid = ?
SetLastBalance(rows, uid, balance) ==
    [k \in DOMAIN rows |->
        IF rows[k].uid = uid THEN [rows[k] EXCEPT !.last_balance = balance]
        ELSE rows[k]]

\* INSERT INTO balance_history (uid, balance)
HistoryRow(uid, balance) == [uid |-> uid, balance |-> balance]

\* INSERT INTO alert_history (uid, alert_type, balance, threshold, message).
\* obs is not a column: it names the monitor observation the alert was raised for.
AlertRow(uid, alert_type, balance, threshold, obs) ==
    [uid |-> uid, alert_type |-> alert_type, balance |-> balance,
     threshold |-> threshold, obs |-> obs]

\* One resolved send_message call: result is "ok", "failed" (it raised and the
\* exception was logged) or "cancelled" (CancelledError was raised at the await).
MessageRow(chat_id, uid, alert_type, obs, result) ==
    [chat_id |-> chat_id, uid |-> uid, alert_type |-> alert_type, obs |-> obs,
     result |-> result]

\* ----------------------------------------------------------------- tasks
\* pc: "created" (scheduled, not yet run), "loop" (at the while test),
\* "iter" (at the for statement, about to check accts[i]), "send" (awaiting
\* send_message to ADMIN_CHAT_IDS[j] for the alert `kind`), "sleep", "backoff",
\* "done".  cancel is the task's pending cancellation request.  outcomes and retry
\* are history fields: what each check of the current sweep came to, and whether
\* the task is at the while test because the fallback sleep has returned.  delay
\* is the argument of the asyncio.sleep call the task awaits, 0 when it awaits none.
NewTask ==
    [pc |-> "created", cancel |-> FALSE, accts |-> <<>>, i |-> 0,
     current_balance |-> 0, kind |-> "none", j |-> 0, obs |-> 0, outcomes |-> <<>>,
     retry |-> FALSE, delay |-> 0]

RunningPCs == {"loop", "iter"}
SuspendedPCs == {"created", "send", "sleep", "backoff"}

\* No coroutine holds the event loop.
Idle == \A t \in DOMAIN tasks : tasks[t].pc \notin RunningPCs

Last2(s) == IF Len(s) <= 2 THEN s ELSE SubSeq(s, Len(s) - 1, Len(s))
Called(op) == Last2(Append(calls, op))

\* ------------------------------------------------------------------ Init
\* The n oldest uids are bound, each with provider balance 0 at bind time:
\* bind_aliyun_command inserts the row and calls update_balance(uid, 0).
InitAccounts(n) ==
    [k \in 1..n |-> AccountRow(Uids[n + 1 - k], LowThresholds[n + 1 - k],
                               DropThresholds[n + 1 - k], 0)]

\* The monitor after __init__, with nothing written by it yet.
InitMonitor ==
    /\ alert_history = <<>>
    /\ messages = <<>>
    /\ monitoring = FALSE
    /\ monitor_task = 0
    /\ tasks = <<>>
    /\ stop_await = 0
    /\ checked = <<>>
    /\ calls = <<>>

\* No /bind_aliyun command has been handled.
NoBind == [command |-> 0, uid |-> "", success |-> FALSE]

\* No /unbind_aliyun command has been handled.
NoUnbind == [command |-> 0, uid |-> "", returned |-> FALSE]

\* No update has been handled.
NoUpdate == [command |-> 0, chat_id |-> "", kind |-> "", text |-> "", verified |-> FALSE]

\* The keys a configured client was built from are keys the provider accepts,
\* and they are the saved ones; no chat is waiting to send keys.
InitChat ==
    /\ credentials = IF client THEN "valid" ELSE "none"
    /\ system_config = credentials
    /\ waiting_for_credentials = {}
    /\ ALIYUN_RESELLER_TEST_UID = FALSE
    /\ update = NoUpdate

\* No command is in flight, and n commands are to come.
InitCommands(n) ==
    /\ query = <<>>
    /\ commands = n
    /\ handled = NoBind
    /\ unbound = NoUnbind
    /\ InitChat

Init ==
    /\ client \in BOOLEAN
    /\ \E n \in 0..Len(Uids) :
          /\ accounts = InitAccounts(n)
          /\ balance_history = [k \in 1..n |-> HistoryRow(Uids[k], 0)]
    /\ blocked = {ADMIN_CHAT_IDS[1]}
    /\ CHECK_INTERVAL = DefaultCheckInterval
    /\ provider = [balances |-> Balances, fetches |-> MaxObs]
    /\ faulty = FALSE
    /\ InitMonitor
    /\ InitCommands(0)

\* The account of the reference scenario, bound with thresholds 1000 and 500
\* and last_balance 0, and a provider that answers with the scenario's balances.
ScenarioInit ==
    /\ client = TRUE
    /\ accounts = <<AccountRow(Uids[1], 1000, 500, 0)>>
    /\ balance_history = <<HistoryRow(Uids[1], 0)>>
    /\ blocked = {ADMIN_CHAT_IDS[1]}
    /\ CHECK_INTERVAL = DefaultCheckInterval
    /\ provider = [balances |-> ScenarioBalances, fetches |-> MaxScenarioObs]
    /\ faulty = FALSE
    /\ InitMonitor
    /\ InitCommands(0)

\* One account and a provider that answers a fetch with one low balance.
LiveInit ==
    /\ client \in BOOLEAN
    /\ accounts = <<AccountRow(Uids[1], 1000, 500, 0)>>
    /\ balance_history = <<HistoryRow(Uids[1], 0)>>
    /\ blocked = {ADMIN_CHAT_IDS[1]}
    /\ CHECK_INTERVAL = DefaultCheckInterval
    /\ provider = [balances |-> {900}, fetches |-> MaxLiveObs]
    /\ faulty = FALSE
    /\ InitMonitor
    /\ InitCommands(0)

\* ------------------------------------------------- start_monitoring, stop
\* AliyunClient.is_configured
is_configured == client

\* BalanceMonitor.is_monitoring
is_monitoring == monitoring

\* Mutants of StartReturnsEarly: one guard is missing.
StartReturnsEarlyOnlyUnconfigured == ~is_configured
StartReturnsEarlyOnlyRunning == monitoring

\* The two guards of start_monitoring that return without starting.
StartReturnsEarly == monitoring \/ ~is_configured

\* start_monitoring() has no await: it runs as one step.
StartMonitoring ==
    /\ Idle
    /\ calls' = Called("start")
    /\ IF StartReturnsEarly
       THEN UNCHANGED <<monitoring, monitor_task, tasks>>
       ELSE /\ Len(tasks) < MaxTasks
            /\ monitoring' = TRUE
            /\ tasks' = Append(tasks, NewTask)
            /\ monitor_task' = Len(tasks) + 1
    /\ UNCHANGED <<env, chat, bot, store, messages, stop_await, checked>>

\* Mutant of StopMonitoring: the task is cancelled and not awaited.
StopMonitoringNoAwait ==
    /\ Idle
    /\ monitoring => stop_await = 0
    /\ calls' = Called("stop")
    /\ IF ~monitoring
       THEN UNCHANGED <<monitoring, tasks, stop_await>>
       ELSE /\ monitoring' = FALSE
            /\ IF monitor_task # 0 /\ tasks[monitor_task].pc # "done"
               THEN tasks' = [tasks EXCEPT ![monitor_task].cancel = TRUE]
               ELSE UNCHANGED tasks
            /\ UNCHANGED stop_await
    /\ UNCHANGED <<env, chat, bot, store, messages, monitor_task, checked>>

\* Mutant of StopMonitoring: the flag is cleared and the task is awaited, but
\* not cancelled, so it ends only if it finds the flag cleared at its while test.
StopMonitoringNoCancel ==
    /\ Idle
    /\ monitoring => stop_await = 0
    /\ calls' = Called("stop")
    /\ IF ~monitoring
       THEN UNCHANGED <<monitoring, stop_await>>
       ELSE /\ monitoring' = FALSE
            /\ stop_await' = IF monitor_task # 0 /\ tasks[monitor_task].pc # "done"
                              THEN monitor_task ELSE stop_await
    /\ UNCHANGED <<env, chat, bot, store, messages, monitor_task, tasks, checked>>

\* stop_monitoring() up to its await: Task.cancel() on a finished task does
\* nothing, and awaiting a finished task returns at once.  At most one call is
\* suspended at the await at a time.
StopMonitoring ==
    /\ Idle
    /\ monitoring => stop_await = 0
    /\ calls' = Called("stop")
    /\ IF ~monitoring
       THEN UNCHANGED <<monitoring, tasks, stop_await>>
       ELSE /\ monitoring' = FALSE
            /\ IF monitor_task # 0 /\ tasks[monitor_task].pc # "done"
               THEN /\ tasks' = [tasks EXCEPT ![monitor_task].cancel = TRUE]
                    /\ stop_await' = monitor_task
               ELSE UNCHANGED <<tasks, stop_await>>
    /\ UNCHANGED <<env, chat, bot, store, messages, monitor_task, checked>>

\* The awaited task has finished: stop_monitoring() resumes and returns.
StopReturns ==
    /\ Idle
    /\ stop_await # 0
    /\ tasks[stop_await].pc = "done"
    /\ stop_await' = 0
    /\ UNCHANGED <<env, chat, bot, store, messages, monitoring, monitor_task, tasks, checked, calls>>

\* ------------------------------------------------------- provider client
\* What get_credit_info(uid) returns: None without a client, else a dict with
\* success False, or with success True and the available credit.
NoCreditInfo == [is_none |-> TRUE, success |-> FALSE, available_credit |-> 0]
FailedCreditInfo == [is_none |-> FALSE, success |-> FALSE, available_credit |-> 0]
CreditInfo(balance) == [is_none |-> FALSE, success |-> TRUE, available_credit |-> balance]

get_credit_info ==
    IF ~client THEN {NoCreditInfo}
    ELSE {FailedCreditInfo}
         \cup (IF credentials = "valid" /\ Len(checked) < provider.fetches
               THEN {CreditInfo(b) : b \in provider.balances} ELSE {})

\* if not credit_info or not credit_info.get('success')
FetchFailed(credit_info) == credit_info.is_none \/ ~credit_info.success

\* --------------------------------------------------- threshold evaluation
\* Mutant of DropCondition: a strict comparison.
DropConditionStrict(last_balance, current_balance, drop_threshold) ==
    last_balance > 0 /\ (last_balance - current_balance) > drop_threshold

\* Mutants of LowBalanceCondition: a strict comparison; and a debounce that
\* stays silent while the stored balance was already at or below the threshold.
LowBalanceConditionStrict(account, current_balance) ==
    current_balance < account.low_balance_threshold

LowBalanceConditionDebounced(account, current_balance) ==
    /\ current_balance <= account.low_balance_threshold
    /\ ~(account.last_balance > 0 /\ account.last_balance <= account.low_balance_threshold)

\* if current_balance <= low_threshold
LowBalanceCondition(account, current_balance) ==
    current_balance <= account.low_balance_threshold

\* if last_balance > 0 and (last_balance - current_balance) >= drop_threshold
DropCondition(last_balance, current_balance, drop_threshold) ==
    last_balance > 0 /\ (last_balance - current_balance) >= drop_threshold

\* ------------------------------------------------------------ store calls
\* Whether a write commits: every Database method catches the exception of a
\* failed write, logs it and returns False, and the transaction is rolled back.
StoreWrites == IF faulty THEN {TRUE, FALSE} ELSE {TRUE}

\* Mutant of update_balance: the row update and the history insert commit
\* separately.
update_balance_in_two_writes(uid, balance) ==
    \E updated \in StoreWrites, inserted \in StoreWrites :
       /\ accounts' = IF updated THEN SetLastBalance(accounts, uid, balance) ELSE accounts
       /\ balance_history' = IF inserted
                             THEN Append(balance_history, HistoryRow(uid, balance))
                             ELSE balance_history

\* Database.update_balance: the row update and the history insert commit
\* together.  The insert does not look for the account row: without one the
\* update changes nothing and the history row is still written.
update_balance(uid, balance) ==
    \E committed \in StoreWrites :
       IF committed
       THEN /\ accounts' = SetLastBalance(accounts, uid, balance)
            /\ balance_history' = Append(balance_history, HistoryRow(uid, balance))
       ELSE UNCHANGED <<accounts, balance_history>>

\* Database.record_alert
record_alert(uid, alert_type, balance, threshold, obs) ==
    \E committed \in StoreWrites :
       IF committed
       THEN alert_history' = Append(alert_history,
                                    AlertRow(uid, alert_type, balance, threshold, obs))
       ELSE UNCHANGED alert_history

\* ------------------------------------------------------ the monitor task
SetTask(t, task) == [tasks EXCEPT ![t] = task]

Outcome(status, obs) == [status |-> status, obs |-> obs]

\* Mutant of NextAccount: no interval sleep after the sweep; the loop goes
\* back to the while test.
NextAccountWithoutSleep(task) ==
    LET cleared == [task EXCEPT !.current_balance = 0, !.kind = "none", !.j = 0, !.obs = 0]
    IN  IF task.i < Len(task.accts)
        THEN [cleared EXCEPT !.pc = "iter", !.i = task.i + 1]
        ELSE [cleared EXCEPT !.pc = "loop", !.i = 0, !.delay = 0]

\* The for statement of _check_all_accounts after the check of accts[i] has
\* returned: the next account, or the end of the sweep and the interval sleep.
NextAccount(task) ==
    LET cleared == [task EXCEPT !.current_balance = 0, !.kind = "none", !.j = 0, !.obs = 0]
    IN  IF task.i < Len(task.accts)
        THEN [cleared EXCEPT !.pc = "iter", !.i = task.i + 1]
        ELSE [cleared EXCEPT !.pc = "sleep", !.i = 0, !.delay = CHECK_INTERVAL]

\* _check_account_balance returns normally.
FinishCheck(t, task, chk) ==
    /\ tasks' = SetTask(t, NextAccount(task))
    /\ checked' = IF task.obs = 0 THEN chk ELSE [chk EXCEPT ![task.obs].done = TRUE]

\* _send_*_alert after record_alert: the first send_message call is awaited.
BeginSend(t, task, kind) ==
    tasks' = SetTask(t, [task EXCEPT !.pc = "send", !.kind = kind, !.j = 1])

\* The drop test of _check_account_balance and what follows it.
DropStep(t, task, chk) ==
    LET account == task.accts[task.i] IN
    IF DropCondition(account.last_balance, task.current_balance, account.drop_threshold)
    THEN /\ record_alert(account.uid, "balance_drop", task.current_balance,
                         account.drop_threshold, task.obs)
         /\ BeginSend(t, task, "balance_drop")
         /\ checked' = chk
    ELSE /\ UNCHANGED alert_history
         /\ FinishCheck(t, task, chk)

\* The first step of a created task.
TaskStarts(t) ==
    /\ t \in DOMAIN tasks
    /\ Idle
    /\ tasks[t].pc = "created"
    /\ ~tasks[t].cancel
    /\ tasks' = SetTask(t, [tasks[t] EXCEPT !.pc = "loop"])
    /\ UNCHANGED <<env, chat, bot, store, messages, monitoring, monitor_task, stop_await, checked, calls>>

\* Mutant of MonitorLoop: the account list is read once and kept for the
\* later sweeps of the task.
MonitorLoopCachesList(t) ==
    LET listed == IF tasks[t].accts # <<>> THEN tasks[t].accts ELSE accounts IN
    /\ t \in DOMAIN tasks
    /\ tasks[t].pc = "loop"
    /\ tasks' = SetTask(t,
         IF ~monitoring THEN [NewTask EXCEPT !.pc = "done", !.cancel = tasks[t].cancel]
         ELSE IF listed = <<>>
              THEN [tasks[t] EXCEPT !.pc = "sleep", !.delay = CHECK_INTERVAL,
                                    !.accts = <<>>, !.i = 0, !.outcomes = <<>>,
                                    !.retry = FALSE]
              ELSE [tasks[t] EXCEPT !.pc = "iter", !.accts = listed, !.i = 1,
                                    !.outcomes = <<>>, !.retry = FALSE])
    /\ UNCHANGED <<env, chat, bot, store, messages, monitoring, monitor_task, stop_await, checked, calls>>

\* while self.monitoring, and the head of _check_all_accounts: the account list
\* is read, and an empty list returns to the interval sleep.
MonitorLoop(t) ==
    /\ t \in DOMAIN tasks
    /\ tasks[t].pc = "loop"
    /\ tasks' = SetTask(t,
         IF ~monitoring THEN [NewTask EXCEPT !.pc = "done", !.cancel = tasks[t].cancel]
         ELSE IF accounts = <<>>
              THEN [tasks[t] EXCEPT !.pc = "sleep", !.delay = CHECK_INTERVAL,
                                    !.accts = <<>>, !.i = 0, !.outcomes = <<>>,
                                    !.retry = FALSE]
              ELSE [tasks[t] EXCEPT !.pc = "iter", !.accts = accounts, !.i = 1,
                                    !.outcomes = <<>>, !.retry = FALSE])
    /\ UNCHANGED <<env, chat, bot, store, messages, monitoring, monitor_task, stop_await, checked, calls>>

\* Mutant of SweepRaises: no except clause for Exception in _monitor_loop, so
\* the exception ends the task.
SweepRaisesUncaught(t) ==
    /\ t \in DOMAIN tasks
    /\ tasks[t].pc = "loop"
    /\ monitoring
    /\ tasks' = SetTask(t, [NewTask EXCEPT !.pc = "done", !.cancel = tasks[t].cancel])
    /\ UNCHANGED <<env, chat, bot, store, messages, monitoring, monitor_task, stop_await, checked, calls>>

\* Mutant of SweepRaises: the except clause sleeps for the check interval.
SweepRaisesSleepsInterval(t) ==
    /\ t \in DOMAIN tasks
    /\ tasks[t].pc = "loop"
    /\ monitoring
    /\ tasks' = SetTask(t, [tasks[t] EXCEPT !.pc = "backoff", !.delay = CHECK_INTERVAL,
                                            !.accts = <<>>, !.i = 0,
                                            !.outcomes = <<>>, !.retry = FALSE])
    /\ UNCHANGED <<env, chat, bot, store, messages, monitoring, monitor_task, stop_await, checked, calls>>

\* An unexpected exception leaves _check_all_accounts: the loop logs it and
\* awaits the fallback sleep.  It is raised where the sweep begins.
SweepRaises(t) ==
    /\ t \in DOMAIN tasks
    /\ tasks[t].pc = "loop"
    /\ monitoring
    /\ tasks' = SetTask(t, [tasks[t] EXCEPT !.pc = "backoff", !.delay = FallbackSleep,
                                            !.accts = <<>>, !.i = 0,
                                            !.outcomes = <<>>, !.retry = FALSE])
    /\ UNCHANGED <<env, chat, bot, store, messages, monitoring, monitor_task, stop_await, checked, calls>>

\* Mutant of FetchFails: the balance is read with a default of 0 and stored
\* before the result is tested.
FetchFailsAfterStoring(t) ==
    /\ tasks' = SetTask(t, NextAccount(
         [tasks[t] EXCEPT !.outcomes = Append(@, Outcome("failed", 0))]))
    /\ update_balance(tasks[t].accts[tasks[t].i].uid, 0)
    /\ UNCHANGED <<alert_history, checked>>

\* The provider fetch of the check failed: the check returns.
FetchFails(t) ==
    /\ tasks' = SetTask(t, NextAccount(
         [tasks[t] EXCEPT !.outcomes = Append(@, Outcome("failed", 0))]))
    /\ UNCHANGED <<store, checked>>

\* The provider fetch succeeded: the balance is stored, then the two tests run
\* up to the first send_message call.
FetchSucceeds(t, current_balance) ==
    LET account == tasks[t].accts[tasks[t].i]
        obs == Len(checked) + 1
        task == [tasks[t] EXCEPT !.current_balance = current_balance, !.obs = obs,
                                 !.outcomes = Append(@, Outcome("ok", obs))]
        chk == Append(checked,
                 [uid |-> account.uid, task |-> t,
                  last_balance |-> account.last_balance,
                  current_balance |-> current_balance,
                  low_threshold |-> account.low_balance_threshold,
                  drop_threshold |-> account.drop_threshold,
                  done |-> FALSE])
    IN  /\ update_balance(account.uid, current_balance)
        /\ IF LowBalanceCondition(account, current_balance)
           THEN /\ record_alert(account.uid, "low_balance", current_balance,
                                account.low_balance_threshold, obs)
                /\ BeginSend(t, task, "low_balance")
                /\ checked' = chk
           ELSE DropStep(t, task, chk)

\* _check_account_balance(accts[i]) from its call to its first await or its return.
CheckAccount(t) ==
    /\ t \in DOMAIN tasks
    /\ tasks[t].pc = "iter"
    /\ \E credit_info \in get_credit_info :
          IF FetchFailed(credit_info)
          THEN FetchFails(t)
          ELSE FetchSucceeds(t, credit_info.available_credit)
    /\ UNCHANGED <<env, chat, bot, messages, monitoring, monitor_task, stop_await, calls>>

\* Mutant of CheckRaises: no try/except around the check, so the exception
\* leaves the sweep and is caught by _monitor_loop.
CheckRaisesUncaught(t) ==
    /\ t \in DOMAIN tasks
    /\ tasks[t].pc = "iter"
    /\ tasks' = SetTask(t, [tasks[t] EXCEPT !.pc = "backoff", !.delay = FallbackSleep,
                               !.outcomes = Append(@, Outcome("raised", 0))])
    /\ UNCHANGED <<env, chat, bot, store, messages, monitoring, monitor_task, stop_await, checked, calls>>

\* An unexpected exception leaves _check_account_balance: _check_all_accounts
\* logs it and goes on.  It is raised where the check begins.
CheckRaises(t) ==
    /\ t \in DOMAIN tasks
    /\ tasks[t].pc = "iter"
    /\ tasks' = SetTask(t, NextAccount(
         [tasks[t] EXCEPT !.outcomes = Append(@, Outcome("raised", 0))]))
    /\ UNCHANGED <<env, chat, bot, store, messages, monitoring, monitor_task, stop_await, checked, calls>>

\* Mutant of SendDone: the drop test is an elif of the low-balance test, so a
\* check that sent the low_balance alert returns without it.
SendDoneSkipsDropAfterLow(t) ==
    LET task == tasks[t]
        account == task.accts[task.i]
        admin == ADMIN_CHAT_IDS[task.j]
        result == IF admin \in blocked THEN "failed" ELSE "ok"
    IN  /\ t \in DOMAIN tasks
        /\ Idle
        /\ task.pc = "send"
        /\ ~task.cancel
        /\ messages' = Append(messages,
                              MessageRow(admin, account.uid, task.kind, task.obs, result))
        /\ IF task.j < Len(ADMIN_CHAT_IDS)
           THEN /\ tasks' = SetTask(t, [task EXCEPT !.j = task.j + 1])
                /\ UNCHANGED <<alert_history, checked>>
           ELSE /\ FinishCheck(t, task, checked)
                /\ UNCHANGED alert_history
        /\ UNCHANGED <<env, chat, bot, accounts, balance_history, monitoring, monitor_task, stop_await, calls>>

\* Mutant of SendDone: no try/except around send_message, so the exception of a
\* failed send leaves the check and is caught by _check_all_accounts.
SendDoneAbortsOnFailure(t) ==
    LET task == tasks[t]
        account == task.accts[task.i]
        admin == ADMIN_CHAT_IDS[task.j]
        result == IF admin \in blocked THEN "failed" ELSE "ok"
    IN  /\ t \in DOMAIN tasks
        /\ Idle
        /\ task.pc = "send"
        /\ ~task.cancel
        /\ messages' = Append(messages,
                              MessageRow(admin, account.uid, task.kind, task.obs, result))
        /\ IF result = "failed"
           THEN /\ tasks' = SetTask(t, NextAccount(task))
                /\ UNCHANGED <<alert_history, checked>>
           ELSE IF task.j < Len(ADMIN_CHAT_IDS)
           THEN /\ tasks' = SetTask(t, [task EXCEPT !.j = task.j + 1])
                /\ UNCHANGED <<alert_history, checked>>
           ELSE IF task.kind = "low_balance"
                THEN DropStep(t, task, checked)
                ELSE /\ FinishCheck(t, task, checked)
                     /\ UNCHANGED alert_history
        /\ UNCHANGED <<env, chat, bot, accounts, balance_history, monitoring, monitor_task, stop_await, calls>>

\* The awaited send_message resolves: it returned, or it raised and the
\* exception was logged.  Then the next admin, the drop test or the return.
SendDone(t) ==
    LET task == tasks[t]
        account == task.accts[task.i]
        admin == ADMIN_CHAT_IDS[task.j]
        result == IF admin \in blocked THEN "failed" ELSE "ok"
    IN  /\ t \in DOMAIN tasks
        /\ Idle
        /\ task.pc = "send"
        /\ ~task.cancel
        /\ messages' = Append(messages,
                              MessageRow(admin, account.uid, task.kind, task.obs, result))
        /\ IF task.j < Len(ADMIN_CHAT_IDS)
           THEN /\ tasks' = SetTask(t, [task EXCEPT !.j = task.j + 1])
                /\ UNCHANGED <<alert_history, checked>>
           ELSE IF task.kind = "low_balance"
                THEN DropStep(t, task, checked)
                ELSE /\ FinishCheck(t, task, checked)
                     /\ UNCHANGED alert_history
        /\ UNCHANGED <<env, chat, bot, accounts, balance_history, monitoring, monitor_task, stop_await, calls>>

\* await asyncio.sleep(Config.CHECK_INTERVAL) returns.
SleepReturns(t) ==
    /\ t \in DOMAIN tasks
    /\ Idle
    /\ tasks[t].pc = "sleep"
    /\ ~tasks[t].cancel
    /\ tasks' = SetTask(t, [tasks[t] EXCEPT !.pc = "loop", !.delay = 0])
    /\ UNCHANGED <<env, chat, bot, store, messages, monitoring, monitor_task, stop_await, checked, calls>>

\* await asyncio.sleep(60) in the except clause returns.
BackoffReturns(t) ==
    /\ t \in DOMAIN tasks
    /\ Idle
    /\ tasks[t].pc = "backoff"
    /\ ~tasks[t].cancel
    /\ tasks' = SetTask(t, [tasks[t] EXCEPT !.pc = "loop", !.retry = TRUE, !.delay = 0])
    /\ UNCHANGED <<env, chat, bot, store, messages, monitoring, monitor_task, stop_await, checked, calls>>

\* A cancelled task is resumed: CancelledError is raised at its await and ends
\* _monitor_loop, whatever the task was awaiting.
TaskCancelled(t) ==
    LET task == tasks[t] IN
    /\ t \in DOMAIN tasks
    /\ Idle
    /\ task.pc \in SuspendedPCs
    /\ task.cancel
    /\ messages' = IF task.pc = "send"
                   THEN Append(messages,
                               MessageRow(ADMIN_CHAT_IDS[task.j], task.accts[task.i].uid,
                                          task.kind, task.obs, "cancelled"))
                   ELSE messages
    /\ tasks' = SetTask(t, [NewTask EXCEPT !.pc = "done", !.cancel = TRUE])
    /\ UNCHANGED <<env, chat, bot, store, monitoring, monitor_task, stop_await, checked, calls>>

\* ------------------------------------------------------- command handlers
\* The application handles one update at a time (no concurrent_updates), so a
\* command starts only when no other is in flight; the monitor task steps at
\* the awaits of a handler.  Every handler first replies to a chat that is not
\* an admin's and returns; the commands here come from an admin.
CommandStarts ==
    /\ Idle
    /\ query = <<>>
    /\ commands > 0
    /\ commands' = commands - 1

\* DELETE FROM <table> WHERE uid = ?
DeleteWhereUid(rows, uid) ==
    LET Keep(row) == row.uid # uid IN SelectSeq(rows, Keep)

\* Mutant of InsertOrReplace: a plain INSERT into a table without the UNIQUE
\* constraint on uid.
InsertPlain(rows, uid, low, drop) ==
    <<AccountRow(uid, low, drop, 0)>> \o rows

\* INSERT OR REPLACE INTO aliyun_accounts (uid, remark, thresholds, updated_at):
\* uid is UNIQUE, so a row with this uid is deleted first.  The new row takes
\* the defaults last_balance 0 and created_at now, which lists it first.
InsertOrReplace(rows, uid, low, drop) ==
    <<AccountRow(uid, low, drop, 0)>> \o DeleteWhereUid(rows, uid)

\* What get_credit_info(uid) returns to a command handler.
command_credit_info ==
    IF ~client THEN {NoCreditInfo}
    ELSE {FailedCreditInfo}
         \cup (IF credentials = "valid"
               THEN {CreditInfo(b) : b \in provider.balances} ELSE {})

\* What the history variable records of a /bind_aliyun command.
BindHandled(uid, credit_info) ==
    [command |-> commands, uid |-> uid,
     success |-> is_configured /\ ~FetchFailed(credit_info)]

\* The store calls of bind_aliyun_command once the uid is validated:
\* bind_aliyun_account and, when it returned True, update_balance.
BindAndStore(uid, low, drop, current_balance) ==
    \E bound \in StoreWrites, stored \in StoreWrites :
       IF ~bound
       THEN UNCHANGED <<accounts, balance_history>>
       ELSE LET rows == InsertOrReplace(accounts, uid, low, drop) IN
            IF stored
            THEN /\ accounts' = SetLastBalance(rows, uid, current_balance)
                 /\ balance_history' =
                       Append(balance_history, HistoryRow(uid, current_balance))
            ELSE /\ accounts' = rows
                 /\ UNCHANGED balance_history

\* Mutant of BindAliyun: the account is bound whatever the fetch returned.
BindAliyunUnvalidated(uid, low, drop) ==
    /\ CommandStarts
    /\ \E credit_info \in command_credit_info :
          /\ handled' = BindHandled(uid, credit_info)
          /\ BindAndStore(uid, low, drop, credit_info.available_credit)
    /\ UNCHANGED <<env, chat, alert_history, messages, monitoring, monitor_task, tasks,
                   stop_await, checked, calls, query, unbound>>

\* /bind_aliyun uid remark low drop: the uid is validated with a fetch, the
\* account is bound and the fetched balance stored, all before the first await.
BindAliyun(uid, low, drop) ==
    /\ CommandStarts
    /\ \E credit_info \in command_credit_info :
          /\ handled' = BindHandled(uid, credit_info)
          /\ IF ~is_configured \/ FetchFailed(credit_info)
             THEN UNCHANGED <<accounts, balance_history>>
             ELSE BindAndStore(uid, low, drop, credit_info.available_credit)
    /\ UNCHANGED <<env, chat, alert_history, messages, monitoring, monitor_task, tasks,
                   stop_await, checked, calls, query, unbound>>

\* Mutant of unbind_aliyun_account: only the account row is deleted.
unbind_account_row_only(uid) ==
    /\ accounts' = DeleteWhereUid(accounts, uid)
    /\ UNCHANGED <<balance_history, alert_history>>

\* Database.unbind_aliyun_account: the three deletes commit together.
unbind_aliyun_account(uid) ==
    /\ accounts' = DeleteWhereUid(accounts, uid)
    /\ balance_history' = DeleteWhereUid(balance_history, uid)
    /\ alert_history' = DeleteWhereUid(alert_history, uid)

\* cursor.rowcount when unbind_aliyun_account returns: the rows the statement
\* the cursor executed last has deleted, the DELETE FROM alert_history.
unbind_rowcount(uid) ==
    Cardinality({n \in DOMAIN alert_history : alert_history[n].uid = uid})

\* What unbind_aliyun_account returns: cursor.rowcount > 0 after the commit,
\* and False from the except clause of a failed write.
unbind_returns(uid, committed) == committed /\ unbind_rowcount(uid) > 0

\* /unbind_aliyun uid
UnbindAliyun(uid) ==
    /\ CommandStarts
    /\ \E committed \in StoreWrites :
          /\ IF committed THEN unbind_aliyun_account(uid) ELSE UNCHANGED store
          /\ unbound' = [command |-> commands, uid |-> uid,
                         returned |-> unbind_returns(uid, committed)]
    /\ UNCHANGED <<env, chat, messages, monitoring, monitor_task, tasks, stop_await, checked,
                   calls, query, handled>>

\* Database.get_aliyun_account: the row with this uid, or None.
get_aliyun_account(uid) == {accounts[n] : n \in {m \in DOMAIN accounts : accounts[m].uid = uid}}

\* Database.update_threshold: UPDATE aliyun_accounts SET <column> = ? WHERE uid = ?
update_threshold(rows, uid, threshold_type, value) ==
    [k \in DOMAIN rows |->
        IF rows[k].uid # uid THEN rows[k]
        ELSE IF threshold_type = "low"
             THEN [rows[k] EXCEPT !.low_balance_threshold = value]
             ELSE [rows[k] EXCEPT !.drop_threshold = value]]

\* /set_aliyun_low uid value and /set_aliyun_drop uid value
SetThreshold(threshold_type, uid, value) ==
    /\ CommandStarts
    /\ \E committed \in StoreWrites :
          accounts' = IF committed THEN update_threshold(accounts, uid, threshold_type, value)
                      ELSE accounts
    /\ UNCHANGED <<env, chat, balance_history, alert_history, messages, monitoring, monitor_task,
                   tasks, stop_await, checked, calls, query, handled, unbound>>

SetAliyunLow(uid, value) == SetThreshold("low", uid, value)

SetAliyunDrop(uid, value) == SetThreshold("drop", uid, value)

\* /aliyun_balance up to its first await: the account list is read, and the
\* handler awaits the reply that says the query has begun.
AliyunBalanceLists ==
    /\ CommandStarts
    /\ query' = IF is_configured THEN accounts ELSE <<>>
    /\ UNCHANGED <<env, chat, store, messages, monitoring, monitor_task, tasks, stop_await,
                   checked, calls, handled, unbound>>

\* The for loop of aliyun_balance_command over the first k accounts it listed:
\* res[k] is what the fetch of the k-th returned and whether its write committed.
\* A fetched balance is stored with update_balance, and nothing is evaluated.
RECURSIVE QueryLoop(_, _, _)
QueryLoop(listed, res, k) ==
    IF k = 0 THEN [accounts |-> accounts, balance_history |-> balance_history]
    ELSE LET before == QueryLoop(listed, res, k - 1)
             uid == listed[k].uid
             balance == res[k].credit_info.available_credit
         IN  IF FetchFailed(res[k].credit_info) \/ ~res[k].committed
             THEN before
             ELSE [accounts |-> SetLastBalance(before.accounts, uid, balance),
                   balance_history |-> Append(before.balance_history,
                                              HistoryRow(uid, balance))]

\* /aliyun_balance from its first await to its last: the loop has no await.
AliyunBalanceRuns ==
    /\ Idle
    /\ query # <<>>
    /\ \E res \in [DOMAIN query ->
                     [credit_info : command_credit_info, committed : StoreWrites]] :
          LET after == QueryLoop(query, res, Len(query)) IN
          /\ accounts' = after.accounts
          /\ balance_history' = after.balance_history
    /\ query' = <<>>
    /\ UNCHANGED <<env, chat, alert_history, messages, monitoring, monitor_task, tasks,
                   stop_await, checked, calls, commands, handled, unbound>>

\* ------------------------------------------------------ the chat interface
\* Config.is_admin
is_admin(chat_id) == \E k \in DOMAIN ADMIN_CHAT_IDS : ADMIN_CHAT_IDS[k] = chat_id

\* The chats that send updates: the admins' and one that is no admin's.
ChatIds == {ADMIN_CHAT_IDS[k] : k \in DOMAIN ADMIN_CHAT_IDS} \cup {"x1"}

\* The text of a message that is no command: one without an AK: and SK: pair,
\* or a pair of keys the provider accepts, or a pair it rejects.
Texts == {"other", "valid", "invalid"}

\* Config.ENABLE_MONITORING, by its default.
ENABLE_MONITORING == TRUE

HandledUpdate(chat_id, kind, text, verified) ==
    [command |-> commands, chat_id |-> chat_id, kind |-> kind, text |-> text,
     verified |-> verified]

\* if not Config.is_admin(chat_id): the handler of an admin command replies
\* that the chat has no permission, and returns.
Denied(chat_id, kind) ==
    /\ CommandStarts
    /\ update' = HandledUpdate(chat_id, kind, "", FALSE)
    /\ UNCHANGED <<env, store, messages, monitoring, monitor_task, tasks, stop_await,
                   checked, calls, query, handled, unbound, credentials, system_config,
                   waiting_for_credentials, ALIYUN_RESELLER_TEST_UID>>

\* Mutant of StartCommand: the admin test is missing.
StartCommandUnchecked(chat_id) ==
    /\ CommandStarts
    /\ update' = HandledUpdate(chat_id, "start", "", FALSE)
    /\ waiting_for_credentials' =
          IF ~is_configured
          THEN waiting_for_credentials \cup {chat_id} ELSE waiting_for_credentials
    /\ UNCHANGED <<env, store, messages, monitoring, monitor_task, tasks, stop_await,
                   checked, calls, query, handled, unbound, credentials, system_config,
                   ALIYUN_RESELLER_TEST_UID>>

\* /start: an admin's chat is asked for the keys while the client is not
\* configured, and is shown the menu otherwise.
StartCommand(chat_id) ==
    /\ CommandStarts
    /\ update' = HandledUpdate(chat_id, "start", "", FALSE)
    /\ waiting_for_credentials' =
          IF is_admin(chat_id) /\ ~is_configured
          THEN waiting_for_credentials \cup {chat_id} ELSE waiting_for_credentials
    /\ UNCHANGED <<env, store, messages, monitoring, monitor_task, tasks, stop_await,
                   checked, calls, query, handled, unbound, credentials, system_config,
                   ALIYUN_RESELLER_TEST_UID>>

\* What AliyunClient.test_connection can return for a client built from keys:
\* with a test UID it is whether get_credit_info(test_uid) succeeded, which
\* rejected keys never do; without one it is True for every client.
test_connection(keys) ==
    IF ~ALIYUN_RESELLER_TEST_UID THEN {TRUE}
    ELSE IF keys = "valid" THEN {TRUE, FALSE}
    ELSE {FALSE}

\* handle_credentials from test_connection() returning True: the chat stops
\* waiting, the keys are saved and start_monitoring() is called on the client
\* that is now configured.  The two set_config calls are taken together.
CredentialsVerified(chat_id, keys) ==
    /\ waiting_for_credentials' = waiting_for_credentials \ {chat_id}
    /\ \E saved \in StoreWrites :
          system_config' = IF saved THEN keys ELSE system_config
    /\ IF ~ENABLE_MONITORING
       THEN UNCHANGED <<monitoring, monitor_task, tasks, calls>>
       ELSE /\ calls' = Called("start")
            /\ IF monitoring
               THEN UNCHANGED <<monitoring, monitor_task, tasks>>
               ELSE /\ Len(tasks) < MaxTasks
                    /\ monitoring' = TRUE
                    /\ tasks' = Append(tasks, NewTask)
                    /\ monitor_task' = Len(tasks) + 1

\* handle_message: a text message that is no command is handed to
\* handle_credentials when its chat is waiting for the keys.  A text without
\* the AK: and SK: pair is answered with the format; else set_credentials
\* stores the keys in Config and builds the client from them, and then
\* test_connection verifies them.
HandleMessage(chat_id, text) ==
    /\ CommandStarts
    /\ IF chat_id \notin waiting_for_credentials \/ text = "other"
       THEN /\ update' = HandledUpdate(chat_id, "message", text, FALSE)
            /\ UNCHANGED <<client, credentials, system_config, waiting_for_credentials,
                           monitoring, monitor_task, tasks, calls>>
       ELSE /\ client' = TRUE
            /\ credentials' = text
            /\ \E verified \in test_connection(text) :
                  /\ update' = HandledUpdate(chat_id, "credentials", text, verified)
                  /\ IF verified
                     THEN CredentialsVerified(chat_id, text)
                     ELSE UNCHANGED <<system_config, waiting_for_credentials,
                                      monitoring, monitor_task, tasks, calls>>
    /\ UNCHANGED <<blocked, provider, faulty, CHECK_INTERVAL, ALIYUN_RESELLER_TEST_UID,
                   store, messages, stop_await, checked, query, handled, unbound>>

\* The account commands as a chat sends them: each handler begins with the
\* admin test.
BindAliyunCommand(chat_id, uid, low, drop) ==
    \/ ~is_admin(chat_id) /\ Denied(chat_id, "bind_aliyun")
    \/ is_admin(chat_id) /\ BindAliyun(uid, low, drop)

UnbindAliyunCommand(chat_id, uid) ==
    \/ ~is_admin(chat_id) /\ Denied(chat_id, "unbind_aliyun")
    \/ is_admin(chat_id) /\ UnbindAliyun(uid)

SetAliyunLowCommand(chat_id, uid, value) ==
    \/ ~is_admin(chat_id) /\ Denied(chat_id, "set_aliyun_low")
    \/ is_admin(chat_id) /\ SetAliyunLow(uid, value)

SetAliyunDropCommand(chat_id, uid, value) ==
    \/ ~is_admin(chat_id) /\ Denied(chat_id, "set_aliyun_drop")
    \/ is_admin(chat_id) /\ SetAliyunDrop(uid, value)

AliyunBalanceCommand(chat_id) ==
    \/ ~is_admin(chat_id) /\ Denied(chat_id, "aliyun_balance")
    \/ is_admin(chat_id) /\ AliyunBalanceLists

\* /start_monitor: after the admin test, start_monitoring() is called when the
\* client is configured and the monitor is not running.
StartMonitorCommand(chat_id) ==
    \/ ~is_admin(chat_id) /\ Denied(chat_id, "start_monitor")
    \/ is_admin(chat_id) /\ is_configured /\ ~is_monitoring /\ StartMonitoring

\* /stop_monitor: after the admin test, stop_monitoring() is called when the
\* monitor is running.
StopMonitorCommand(chat_id) ==
    \/ ~is_admin(chat_id) /\ Denied(chat_id, "stop_monitor")
    \/ is_admin(chat_id) /\ is_monitoring /\ StopMonitoring

\* One step of the task tasks[t].
TaskStep(t) ==
    /\ t \in DOMAIN tasks
    /\ \/ TaskStarts(t)
       \/ MonitorLoop(t)
       \/ SweepRaises(t)
       \/ CheckAccount(t)
       \/ CheckRaises(t)
       \/ SendDone(t)
       \/ SleepReturns(t)
       \/ BackoffReturns(t)
       \/ TaskCancelled(t)

Next ==
    \/ StartMonitoring
    \/ StopMonitoring
    \/ StopReturns
    \/ \E t \in 1..MaxTasks : TaskStarts(t)
    \/ \E t \in 1..MaxTasks : MonitorLoop(t)
    \/ \E t \in 1..MaxTasks : SweepRaises(t)
    \/ \E t \in 1..MaxTasks : CheckAccount(t)
    \/ \E t \in 1..MaxTasks : CheckRaises(t)
    \/ \E t \in 1..MaxTasks : SendDone(t)
    \/ \E t \in 1..MaxTasks : SleepReturns(t)
    \/ \E t \in 1..MaxTasks : BackoffReturns(t)
    \/ \E t \in 1..MaxTasks : TaskCancelled(t)

Spec == Init /\ [][Next]_vars

\* The runs of the reference scenario.
ScenarioSpec == ScenarioInit /\ [][Next]_vars

\* The event loop runs every task that is ready: a task that can step does.
Fairness == \A t \in 1..MaxTasks : WF_vars(TaskStep(t))

LiveSpec == LiveInit /\ [][Next]_vars /\ Fairness

UidSet == {Uids[k] : k \in DOMAIN Uids}

\* The store after n accounts were bound and one sweep of the monitor fetched
\* each of them at the balance b: a history row of the bind and one of the
\* sweep for each, and the low_balance alert of every account at or below its
\* threshold.  No balance fell, so there is no balance_drop alert.
SweptHistory(n, b) ==
    [k \in 1..(2 * n) |->
        IF k <= n THEN HistoryRow(Uids[k], b) ELSE HistoryRow(Uids[2 * n + 1 - k], b)]

RECURSIVE SweptAlerts(_, _, _)
SweptAlerts(n, b, k) ==
    IF k = 0 THEN <<>>
    ELSE LET uid == Uids[n + 1 - k]
             low == LowThresholds[n + 1 - k]
         IN  SweptAlerts(n, b, k - 1)
                \o (IF b <= low THEN <<AlertRow(uid, "low_balance", b, low, 0)>> ELSE <<>>)

SweptStore(n, b) ==
    /\ accounts = [k \in 1..n |-> [InitAccounts(n)[k] EXCEPT !.last_balance = b]]
    /\ balance_history = SweptHistory(n, b)
    /\ alert_history = SweptAlerts(n, b, n)

\* The command handlers alone: the monitor was stopped after its sweep.
StoreInit ==
    /\ client = TRUE
    /\ \E n \in 1..Len(Uids), b \in Balances : SweptStore(n, b)
    /\ blocked = {ADMIN_CHAT_IDS[1]}
    /\ CHECK_INTERVAL = DefaultCheckInterval
    /\ provider = [balances |-> Balances, fetches |-> 0]
    /\ faulty \in BOOLEAN
    /\ messages = <<>>
    /\ monitoring = FALSE
    /\ monitor_task = 0
    /\ tasks = <<>>
    /\ stop_await = 0
    /\ checked = <<>>
    /\ calls = <<>>
    /\ InitCommands(MaxCommands)

StoreNext ==
    \/ \E uid \in UidSet, low, drop \in ThresholdArgs : BindAliyun(uid, low, drop)
    \/ \E uid \in UidSet : UnbindAliyun(uid)
    \/ \E uid \in UidSet, value \in ThresholdArgs : SetAliyunLow(uid, value)
    \/ \E uid \in UidSet, value \in ThresholdArgs : SetAliyunDrop(uid, value)
    \/ AliyunBalanceLists
    \/ AliyunBalanceRuns

StoreSpec == StoreInit /\ [][StoreNext]_vars

\* The monitor with the commands that interleave with a sweep, in the runs in
\* which the monitor is not stopped.  Two accounts are bound and their balance
\* known, and the admins send MaxBotCommands commands.
BotInit ==
    /\ client = TRUE
    /\ \E b \in Balances :
          /\ accounts = [k \in 1..2 |-> [InitAccounts(2)[k] EXCEPT !.last_balance = b]]
          /\ balance_history = [k \in 1..2 |-> HistoryRow(Uids[k], b)]
    /\ blocked = {ADMIN_CHAT_IDS[1]}
    /\ CHECK_INTERVAL = DefaultCheckInterval
    /\ provider = [balances |-> Balances, fetches |-> MaxBotObs]
    /\ faulty = FALSE
    /\ InitMonitor
    /\ InitCommands(MaxBotCommands)

BotNext ==
    \/ StartMonitoring
    \/ \E t \in 1..MaxTasks : TaskStarts(t)
    \/ \E t \in 1..MaxTasks : MonitorLoop(t)
    \/ \E t \in 1..MaxTasks : SweepRaises(t)
    \/ \E t \in 1..MaxTasks : CheckAccount(t)
    \/ \E t \in 1..MaxTasks : CheckRaises(t)
    \/ \E t \in 1..MaxTasks : SendDone(t)
    \/ \E t \in 1..MaxTasks : SleepReturns(t)
    \/ \E t \in 1..MaxTasks : BackoffReturns(t)
    \/ \E uid \in UidSet : UnbindAliyun(uid)
    \/ \E uid \in UidSet, value \in ThresholdArgs : SetAliyunDrop(uid, value)
    \/ AliyunBalanceLists
    \/ AliyunBalanceRuns

BotSpec == BotInit /\ [][BotNext]_vars

\* The monitor over a store whose writes can fail: one or two accounts are
\* bound, and each write of a check commits or is rolled back.
FaultInit ==
    /\ client = TRUE
    /\ \E n \in 1..Len(Uids) :
          /\ accounts = InitAccounts(n)
          /\ balance_history = [k \in 1..n |-> HistoryRow(Uids[k], 0)]
    /\ blocked = {ADMIN_CHAT_IDS[1]}
    /\ CHECK_INTERVAL = DefaultCheckInterval
    /\ provider = [balances |-> Balances, fetches |-> MaxFaultObs]
    /\ faulty = TRUE
    /\ InitMonitor
    /\ InitCommands(0)

FaultSpec == FaultInit /\ [][Next]_vars

\* The monitor with any non-empty set of admins whose chat rejects a message.
DeliveryInit ==
    /\ client = TRUE
    /\ \E n \in 1..Len(Uids) :
          /\ accounts = InitAccounts(n)
          /\ balance_history = [k \in 1..n |-> HistoryRow(Uids[k], 0)]
    /\ blocked \in (SUBSET {ADMIN_CHAT_IDS[k] : k \in DOMAIN ADMIN_CHAT_IDS}) \ {{}}
    /\ CHECK_INTERVAL = DefaultCheckInterval
    /\ provider = [balances |-> Balances, fetches |-> MaxDeliveryObs]
    /\ faulty = FALSE
    /\ InitMonitor
    /\ InitCommands(0)

DeliverySpec == DeliveryInit /\ [][Next]_vars

\* The steps of a monitor that is started and not stopped.
SweepNext ==
    \/ StartMonitoring
    \/ \E t \in 1..MaxTasks : TaskStarts(t)
    \/ \E t \in 1..MaxTasks : MonitorLoop(t)
    \/ \E t \in 1..MaxTasks : SweepRaises(t)
    \/ \E t \in 1..MaxTasks : CheckAccount(t)
    \/ \E t \in 1..MaxTasks : CheckRaises(t)
    \/ \E t \in 1..MaxTasks : SendDone(t)
    \/ \E t \in 1..MaxTasks : SleepReturns(t)
    \/ \E t \in 1..MaxTasks : BackoffReturns(t)

\* Two accounts, and a store that commits every write or may fail any of them.
WriteInit ==
    /\ client = TRUE
    /\ accounts = InitAccounts(2)
    /\ balance_history = [k \in 1..2 |-> HistoryRow(Uids[k], 0)]
    /\ blocked = {ADMIN_CHAT_IDS[1]}
    /\ CHECK_INTERVAL = DefaultCheckInterval
    /\ provider = [balances |-> Balances, fetches |-> MaxWriteObs]
    /\ faulty \in BOOLEAN
    /\ InitMonitor
    /\ InitCommands(0)

WriteSpec == WriteInit /\ [][SweepNext]_vars

\* The monitor with one account under each check interval of the environment.
PaceInit ==
    /\ client = TRUE
    /\ accounts = <<AccountRow(Uids[1], 1000, 500, 0)>>
    /\ balance_history = <<HistoryRow(Uids[1], 0)>>
    /\ blocked = {}
    /\ CHECK_INTERVAL \in CheckIntervals
    /\ provider = [balances |-> {900}, fetches |-> MaxPaceObs]
    /\ faulty = FALSE
    /\ InitMonitor
    /\ InitCommands(0)

PaceSpec == PaceInit /\ [][Next]_vars

\* The monitor with the commands that change the set of accounts: the first
\* uid is bound, and the admins bind or unbind MaxListCommands times.
ListInit ==
    /\ client = TRUE
    /\ accounts = InitAccounts(1)
    /\ balance_history = <<HistoryRow(Uids[1], 0)>>
    /\ blocked = {}
    /\ CHECK_INTERVAL = DefaultCheckInterval
    /\ provider = [balances |-> {1000}, fetches |-> MaxListObs]
    /\ faulty = FALSE
    /\ InitMonitor
    /\ InitCommands(MaxListCommands)

ListNext ==
    \/ SweepNext
    \/ \E uid \in UidSet : BindAliyun(uid, LowThresholds[2], DropThresholds[2])
    \/ \E uid \in UidSet : UnbindAliyun(uid)

ListSpec == ListInit /\ [][ListNext]_vars

\* The monitor with one account, in every order of start, stop and task steps.
StopSpec == LiveInit /\ [][Next]_vars

\* The chat interface with the monitor: one account is bound, the client is
\* configured or not, any of the admins may have been asked for the keys, and
\* the chats send MaxChatCommands updates.  The scheduler tasks are created,
\* cancelled and awaited; their sweeps, which no handler enters, are the
\* matter of the other specifications.
ChatInit ==
    /\ client \in BOOLEAN
    /\ credentials = IF client THEN "valid" ELSE "none"
    /\ system_config = credentials
    /\ waiting_for_credentials \in SUBSET {ADMIN_CHAT_IDS[k] : k \in DOMAIN ADMIN_CHAT_IDS}
    /\ ALIYUN_RESELLER_TEST_UID \in BOOLEAN
    /\ update = NoUpdate
    /\ accounts = InitAccounts(1)
    /\ balance_history = <<HistoryRow(Uids[1], 0)>>
    /\ blocked = {}
    /\ CHECK_INTERVAL = DefaultCheckInterval
    /\ provider = [balances |-> {900}, fetches |-> 0]
    /\ faulty = FALSE
    /\ InitMonitor
    /\ query = <<>>
    /\ commands = MaxChatCommands
    /\ handled = NoBind
    /\ unbound = NoUnbind

ChatNext ==
    \/ \E chat_id \in ChatIds : StartCommand(chat_id)
    \/ \E chat_id \in ChatIds, text \in Texts : HandleMessage(chat_id, text)
    \/ \E chat_id \in ChatIds :
          BindAliyunCommand(chat_id, Uids[2], LowThresholds[2], DropThresholds[2])
    \/ \E chat_id \in ChatIds : UnbindAliyunCommand(chat_id, Uids[1])
    \/ \E chat_id \in ChatIds : SetAliyunLowCommand(chat_id, Uids[1], LowThresholds[2])
    \/ \E chat_id \in ChatIds : SetAliyunDropCommand(chat_id, Uids[1], DropThresholds[2])
    \/ \E chat_id \in ChatIds : AliyunBalanceCommand(chat_id)
    \/ AliyunBalanceRuns
    \/ \E chat_id \in ChatIds : StartMonitorCommand(chat_id)
    \/ \E chat_id \in ChatIds : StopMonitorCommand(chat_id)
    \/ StopReturns
    \/ \E t \in 1..MaxTasks : TaskCancelled(t)

ChatSpec == ChatInit /\ [][ChatNext]_vars

\* ================================================================ claims
Admins == {ADMIN_CHAT_IDS[k] : k \in DOMAIN ADMIN_CHAT_IDS}

\* The alert rows raised for observation k, of one kind.
ObsAlerts(k, kind) ==
    {n \in DOMAIN alert_history :
        alert_history[n].obs = k /\ alert_history[n].alert_type = kind}

\* The resolved send_message calls made for observation k, of one kind.
ObsMessages(k, kind) ==
    {n \in DOMAIN messages : messages[n].obs = k /\ messages[n].alert_type = kind}

\* A task is inside the check that made observation k.
InCheck(k) == \E t \in DOMAIN tasks : tasks[t].obs = k

\* The dispatch of the alert of this kind for observation k has begun: a
\* send_message call for it has resolved or is awaited.
Dispatched(k, kind) ==
    \/ ObsMessages(k, kind) # {}
    \/ \E t \in DOMAIN tasks :
          tasks[t].pc = "send" /\ tasks[t].obs = k /\ tasks[t].kind = kind

\* Every admin has got, or failed to get, the alert of this kind for observation k.
DeliveredToAll(k, kind) ==
    \A a \in Admins :
       \E n \in ObsMessages(k, kind) :
          messages[n].chat_id = a /\ messages[n].result \in {"ok", "failed"}

\* C1: for every monitor check whose fetch succeeded, a low_balance alert is
\* recorded, with the fetched balance and the threshold, and its dispatch begun,
\* if and only if the fetched balance is at or below the account's low-balance
\* threshold, whatever the previous balance was.
C1_LowAlertIffAtOrBelowThreshold ==
    \A k \in DOMAIN checked :
       LET c == checked[k] IN
       /\ (ObsAlerts(k, "low_balance") # {}) <=> (c.current_balance <= c.low_threshold)
       /\ \A n \in ObsAlerts(k, "low_balance") :
             /\ alert_history[n].uid = c.uid
             /\ alert_history[n].balance = c.current_balance
             /\ alert_history[n].threshold = c.low_threshold
             /\ Dispatched(k, "low_balance")

\* A check with the balance exactly at the threshold raised the alert and every
\* admin was sent it, next to a check above the threshold that raised none.
C1_Witness ==
    \E k, m \in DOMAIN checked :
       /\ checked[k].current_balance = checked[k].low_threshold
       /\ checked[k].last_balance > 0
       /\ ObsAlerts(k, "low_balance") # {}
       /\ DeliveredToAll(k, "low_balance")
       /\ checked[m].current_balance > checked[m].low_threshold
       /\ ObsAlerts(m, "low_balance") = {}

\* C2: for every monitor check whose fetch succeeded and that is over, a
\* balance_drop alert was recorded if and only if the previous balance was
\* positive and the balance fell by at least the drop threshold.
C2_DropAlertIffDropped ==
    \A k \in DOMAIN checked :
       LET c == checked[k] IN
       ~InCheck(k) =>
          ((ObsAlerts(k, "balance_drop") # {}) <=>
             (c.last_balance > 0 /\ c.last_balance - c.current_balance >= c.drop_threshold))

\* The same for the checks that returned: only a check ended by CancelledError
\* lacks the alert.
DropAlertIffDroppedWhenReturned ==
    \A k \in DOMAIN checked :
       LET c == checked[k] IN
       /\ c.done =>
            ((ObsAlerts(k, "balance_drop") # {}) <=>
               (c.last_balance > 0 /\ c.last_balance - c.current_balance >= c.drop_threshold))
       /\ (ObsAlerts(k, "balance_drop") # {}) =>
            (c.last_balance > 0 /\ c.last_balance - c.current_balance >= c.drop_threshold)

\* C3: a sweep attempts every account of its list once and in order, whatever
\* the earlier checks came to: when the sweep is over every listed account has
\* an outcome, and each account whose fetch succeeded has its observation
\* written and both thresholds evaluated.
C3_EveryListedAccountAttempted ==
    \A t \in DOMAIN tasks :
       LET task == tasks[t] IN
       /\ task.pc \in {"sleep", "backoff"} => Len(task.outcomes) = Len(task.accts)
       /\ task.pc = "iter" => Len(task.outcomes) = task.i - 1
       /\ task.pc = "send" => Len(task.outcomes) = task.i
       /\ task.pc = "sleep" =>
            \A k \in DOMAIN task.outcomes :
               task.outcomes[k].status = "ok" =>
                  LET o == task.outcomes[k].obs
                      c == checked[o]
                  IN  /\ c.uid = task.accts[k].uid
                      /\ c.done
                      /\ \E n \in DOMAIN balance_history :
                            balance_history[n] = HistoryRow(c.uid, c.current_balance)
                      /\ (ObsAlerts(o, "low_balance") # {})
                            <=> (c.current_balance <= c.low_threshold)
                      /\ (ObsAlerts(o, "balance_drop") # {})
                            <=> (c.last_balance > 0
                                 /\ c.last_balance - c.current_balance >= c.drop_threshold)

\* A finished sweep of two accounts in which the first check failed or raised and
\* the second went through.
C3_Witness ==
    \E t \in DOMAIN tasks :
       /\ tasks[t].pc = "sleep"
       /\ Len(tasks[t].accts) = 2
       /\ tasks[t].outcomes[1].status \in {"failed", "raised"}
       /\ tasks[t].outcomes[2].status = "ok"
       /\ ObsAlerts(tasks[t].outcomes[2].obs, "low_balance") # {}

\* C4: the step of a check whose fetch failed changes no account row and adds
\* no history row, no alert row and no message, and begins no send.
C4_FailedFetchWritesNothing ==
    [][\A t \in DOMAIN tasks :
          (/\ t \in DOMAIN tasks'
           /\ Len(tasks'[t].outcomes) = Len(tasks[t].outcomes) + 1
           /\ tasks'[t].outcomes[Len(tasks'[t].outcomes)].status = "failed")
          => (/\ UNCHANGED <<accounts, balance_history, alert_history, messages>>
              /\ tasks'[t].pc # "send")]_vars

\* A sweep in which the fetch of an account with a stored positive balance failed.
C4_Witness ==
    \E t \in DOMAIN tasks :
       \E k \in DOMAIN tasks[t].outcomes :
          /\ tasks[t].outcomes[k].status = "failed"
          /\ tasks[t].accts[k].last_balance > 0
          /\ \E n \in DOMAIN accounts :
                /\ accounts[n].uid = tasks[t].accts[k].uid
                /\ accounts[n].last_balance = tasks[t].accts[k].last_balance

\* The scheduler tasks that are still to run: not finished and not cancelled.
ActiveTasks == {t \in DOMAIN tasks : tasks[t].pc # "done" /\ ~tasks[t].cancel}

\* C5: while the monitor is Running there is exactly one active scheduler task,
\* the one monitor_task names, however many times start_monitoring() was called.
C5_StartIsIdempotent ==
    monitoring => (ActiveTasks = {monitor_task} /\ monitor_task \in DOMAIN tasks)

\* start_monitoring() was called twice in a row with the provider configured:
\* the monitor is Running on the one task of the first call.
C5_Witness ==
    /\ calls = <<"start", "start">>
    /\ client
    /\ monitoring
    /\ Len(tasks) = 1
    /\ ActiveTasks = {1}

\* C6: while the provider is not configured and the monitor is Stopped, no step,
\* start_monitoring() included, makes it Running or creates a scheduler task.
C6_UnconfiguredStartFails ==
    [][(~client /\ ~monitoring)
          => (~monitoring' /\ tasks' = tasks /\ monitor_task' = monitor_task)]_vars

\* start_monitoring() was called without credentials: Stopped, and no task.
C6_Witness ==
    /\ ~client
    /\ calls # <<>>
    /\ calls[Len(calls)] = "start"
    /\ ~is_monitoring
    /\ tasks = <<>>
    /\ monitor_task = 0

\* C7: when a scheduler task has terminated, every check it began has run to
\* its return, and every alert of those checks was sent to every admin.
C7_StopNeverInterruptsACheck ==
    \A t \in DOMAIN tasks :
       tasks[t].pc = "done" =>
          \A k \in DOMAIN checked :
             checked[k].task = t =>
                /\ checked[k].done
                /\ \A n \in DOMAIN alert_history :
                      alert_history[n].obs = k
                         => DeliveredToAll(k, alert_history[n].alert_type)

\* The low-balance alert rows and the low-balance dispatches of one account.
LowAlertsOf(uid) ==
    {n \in DOMAIN alert_history :
        alert_history[n].uid = uid /\ alert_history[n].alert_type = "low_balance"}

LowChecksOf(uid) ==
    {k \in DOMAIN checked :
        checked[k].uid = uid /\ checked[k].current_balance <= checked[k].low_threshold}

\* C9: for every account, the low_balance alert rows are as many as the checks
\* that fetched a balance at or below the threshold, one row per such check, and
\* each of them was dispatched: a balance that stays low is alerted every sweep.
C9_NoDebounce ==
    \A u \in {Uids[k] : k \in DOMAIN Uids} :
       /\ Cardinality(LowAlertsOf(u)) = Cardinality(LowChecksOf(u))
       /\ {alert_history[n].obs : n \in LowAlertsOf(u)} = LowChecksOf(u)
       /\ \A k \in LowChecksOf(u) : Dispatched(k, "low_balance")

\* One account fetched at or below its threshold in two consecutive sweeps: two
\* low_balance rows, and every admin was sent both alerts.
C9_Witness ==
    /\ Len(accounts) = 1
    /\ Len(checked) = 2
    /\ LowChecksOf(accounts[1].uid) = {1, 2}
    /\ checked[2].last_balance = checked[1].current_balance
    /\ Cardinality(LowAlertsOf(accounts[1].uid)) = 2
    /\ DeliveredToAll(1, "low_balance")
    /\ DeliveredToAll(2, "low_balance")

\* The k-th successful fetch of the run returned this balance.
Fetched(k, balance) == Len(checked) >= k /\ checked[k].current_balance = balance

ObsAlertRows(k) == {alert_history[n] : n \in {m \in DOMAIN alert_history : alert_history[m].obs = k}}

\* C10: the account bound with low threshold 1000, drop threshold 500 and
\* last_balance 0 is fetched at 2000, 1400 and 900: the first check records no
\* alert and stores 2000; the second records a balance_drop alert only; the
\* third, once it has returned, has recorded a low_balance and a balance_drop alert.
C10_ReferenceScenario ==
    /\ Fetched(1, 2000) =>
          /\ checked[1].last_balance = 0
          /\ ObsAlertRows(1) = {}
          /\ checked[1].done
          /\ Len(checked) = 1 => accounts[1].last_balance = 2000
    /\ (Fetched(1, 2000) /\ Fetched(2, 1400)) =>
          /\ checked[2].last_balance = 2000
          /\ ObsAlertRows(2) = {AlertRow(Uids[1], "balance_drop", 1400, 500, 2)}
          /\ Cardinality(ObsAlerts(2, "balance_drop")) = 1
    /\ (Fetched(1, 2000) /\ Fetched(2, 1400) /\ Fetched(3, 900) /\ checked[3].done) =>
          /\ checked[3].last_balance = 1400
          /\ ObsAlertRows(3) = {AlertRow(Uids[1], "low_balance", 900, 1000, 3),
                                AlertRow(Uids[1], "balance_drop", 900, 500, 3)}
          /\ Cardinality(ObsAlerts(3, "low_balance")) = 1
          /\ Cardinality(ObsAlerts(3, "balance_drop")) = 1

\* The three checks of the scenario have returned, with three alert rows in all.
C10_Witness ==
    /\ Fetched(1, 2000) /\ Fetched(2, 1400) /\ Fetched(3, 900)
    /\ checked[3].done
    /\ Len(alert_history) = 3
    /\ accounts[1].last_balance = 900

\* C8: a scheduler task ends only when stop_monitoring() has cancelled it; and
\* a task that awaits the fallback sleep after an error in a sweep comes back to
\* the while test with the monitor Running, unless it is cancelled first.
C8_LoopNeverExitsOnItsOwn ==
    /\ [](\A t \in DOMAIN tasks : tasks[t].pc = "done" => tasks[t].cancel)
    /\ \A t \in 1..MaxTasks :
          (t \in DOMAIN tasks /\ tasks[t].pc = "backoff")
             ~> (/\ t \in DOMAIN tasks
                 /\ \/ tasks[t].cancel
                    \/ tasks[t].pc = "loop" /\ tasks[t].retry /\ monitoring)

\* A task is at the while test after the fallback sleep, with the monitor
\* Running and no stop requested: the next sweep is about to begin.
C8_Witness ==
    \E t \in DOMAIN tasks :
       /\ tasks[t].pc = "loop"
       /\ tasks[t].retry
       /\ ~tasks[t].cancel
       /\ monitoring
       /\ monitor_task = t

\* ------------------------------------------------ the store and the commands
\* Some row of the table has this uid.
HasUid(rows, uid) == \E n \in DOMAIN rows : rows[n].uid = uid

\* C11: a step that unbinds an account leaves no account row, no balance_history
\* row and no alert_history row with its uid, and get_aliyun_account finds none.
C11_UnbindCascades ==
    [][\A uid \in UidSet :
          (HasUid(accounts, uid) /\ ~HasUid(accounts', uid))
             => /\ ~HasUid(balance_history', uid)
                /\ ~HasUid(alert_history', uid)
                /\ get_aliyun_account(uid)' = {}]_vars

\* Of two bound accounts with their history and low_balance alerts, the older
\* was unbound: only the rows of the other are left.
C11_Witness ==
    /\ commands = MaxCommands - 1
    /\ Len(accounts) = 1
    /\ accounts[1].uid = Uids[2]
    /\ ~HasUid(balance_history, Uids[1])
    /\ Len(balance_history) = 2
    /\ alert_history = <<AlertRow(Uids[2], "low_balance", 1000, LowThresholds[2], 0)>>

\* The balance_history rows of one account, by position.
HistoryOf(uid) == {n \in DOMAIN balance_history : balance_history[n].uid = uid}

Newest(positions) == CHOOSE n \in positions : \A m \in positions : m <= n

\* C16: the last_balance of every bound account is the balance of its newest
\* balance_history row, and is 0 when it has none.
C16_LastBalanceIsNewestObservation ==
    \A n \in DOMAIN accounts :
       LET observed == HistoryOf(accounts[n].uid) IN
       IF observed = {} THEN accounts[n].last_balance = 0
       ELSE accounts[n].last_balance = balance_history[Newest(observed)].balance

\* The same while every store write commits.
LastBalanceIsNewestObservationWhileWritesCommit ==
    ~faulty => C16_LastBalanceIsNewestObservation

\* C17: both thresholds of every bound account are non-negative.
C17_ThresholdsNonNegative ==
    \A n \in DOMAIN accounts :
       /\ accounts[n].low_balance_threshold >= 0
       /\ accounts[n].drop_threshold >= 0

\* C18: a step that adds balance_history rows gives every row of a bound
\* account that is lower than the row before it of the same account by at least
\* the account's drop threshold, the earlier one positive, a balance_drop alert
\* row with its balance; a monitor check may first send its low_balance alert.
C18_EveryDropIsAlerted ==
    [][(/\ Len(balance_history') > Len(balance_history)
        /\ SubSeq(balance_history', 1, Len(balance_history)) = balance_history)
       => \A q \in (Len(balance_history) + 1)..Len(balance_history') :
             \A n \in DOMAIN accounts' :
                LET uid == accounts'[n].uid
                    before == {p \in 1..(q - 1) : balance_history'[p].uid = uid}
                    previous == balance_history'[Newest(before)].balance
                    current == balance_history'[q].balance
                IN  (/\ balance_history'[q].uid = uid
                     /\ before # {}
                     /\ previous > 0
                     /\ previous - current >= accounts'[n].drop_threshold)
                    => \/ \E a \in (Len(alert_history) + 1)..Len(alert_history') :
                             /\ alert_history'[a].uid = uid
                             /\ alert_history'[a].alert_type = "balance_drop"
                             /\ alert_history'[a].balance = current
                       \/ \E t \in DOMAIN tasks' :
                             /\ tasks'[t].pc = "send"
                             /\ tasks'[t].kind = "low_balance"
                             /\ tasks'[t].accts[tasks'[t].i].uid = uid]_vars

\* C20: no two account rows have the same uid.
C20_UidIsUnique ==
    \A n, m \in DOMAIN accounts : accounts[n].uid = accounts[m].uid => n = m

\* The older of two bound accounts was bound again: it has one row, now listed
\* first, and the history rows it had are kept next to the one of the new bind.
C20_Witness ==
    /\ commands = MaxCommands - 1
    /\ Len(accounts) = 2
    /\ accounts[1].uid = Uids[1]
    /\ accounts[2].uid = Uids[2]
    /\ Cardinality(HistoryOf(Uids[1])) = 3

\* C12: no balance_history row and no alert_history row names a uid that is
\* not bound, also when an unbind interleaves with a running sweep.
C12_NoOrphanedRows ==
    /\ \A n \in DOMAIN balance_history : HasUid(accounts, balance_history[n].uid)
    /\ \A n \in DOMAIN alert_history : HasUid(accounts, alert_history[n].uid)

\* C13: the previous balance a check of the monitor evaluates is the
\* last_balance the store held for the account just before the check's write.
C13_PreviousBalanceIsStoredBalance ==
    [][Len(checked') > Len(checked) =>
          LET obs == checked'[Len(checked')] IN
          \A n \in DOMAIN accounts :
             accounts[n].uid = obs.uid => obs.last_balance = accounts[n].last_balance]_vars

\* C19: a check that fetched a balance above the previous one records no
\* balance_drop alert, whatever threshold the account holds.
C19_IncreaseNeverAlertsADrop ==
    \A k \in DOMAIN checked :
       checked[k].current_balance > checked[k].last_balance =>
          ObsAlerts(k, "balance_drop") = {}

\* C14: a check whose write of the fetched balance fails (no balance_history
\* row is added) records no alert and begins no delivery.
C14_FailedWriteRaisesNoAlert ==
    [][(Len(checked') > Len(checked) /\ balance_history' = balance_history) =>
          /\ alert_history' = alert_history
          /\ LET t == checked'[Len(checked')].task IN tasks'[t].pc # "send"]_vars

\* The step resolves a send_message call that raised.
SendFailed ==
    /\ Len(messages') = Len(messages) + 1
    /\ messages'[Len(messages')].result = "failed"

\* What the task t does after its send to ADMIN_CHAT_IDS[j] has failed: the
\* next admin is sent the same alert; after the last admin the check goes on
\* to the drop test and returns normally, and the sweep takes the next account.
ContinuesAfterFailure(t) ==
    LET task == tasks[t]
        account == task.accts[task.i]
        after == tasks'[t]
    IN  IF task.j < Len(ADMIN_CHAT_IDS)
        THEN /\ after.pc = "send"
             /\ after.j = task.j + 1
             /\ after.kind = task.kind
             /\ after.obs = task.obs
             /\ after.i = task.i
        ELSE IF /\ task.kind = "low_balance"
                /\ DropCondition(account.last_balance, task.current_balance,
                                 account.drop_threshold)
             THEN /\ after.pc = "send"
                  /\ after.j = 1
                  /\ after.kind = "balance_drop"
                  /\ after.obs = task.obs
                  /\ after.i = task.i
             ELSE /\ checked'[task.obs].done
                  /\ after.outcomes = task.outcomes
                  /\ after.accts = task.accts
                  /\ IF task.i < Len(task.accts)
                     THEN after.pc = "iter" /\ after.i = task.i + 1
                     ELSE after.pc = "sleep"

\* C15: when a send_message call of an alert fails, the alert row already
\* recorded stays in alert_history and no row is removed, the remaining admins
\* are still sent the alert, and the check and the sweep continue; so every
\* check that returned has delivered, or failed to deliver, each of its alerts
\* to every admin.
C15_DeliveryIsBestEffort ==
    /\ [][SendFailed =>
            LET m == messages'[Len(messages')] IN
            /\ \E n \in DOMAIN alert_history' :
                  /\ alert_history'[n].obs = m.obs
                  /\ alert_history'[n].alert_type = m.alert_type
                  /\ alert_history'[n].uid = m.uid
            /\ Len(alert_history') >= Len(alert_history)
            /\ \A n \in DOMAIN alert_history : alert_history'[n] = alert_history[n]
            /\ \A t \in DOMAIN tasks :
                  (tasks[t].pc = "send" /\ tasks[t].obs = m.obs) => ContinuesAfterFailure(t)]_vars
    /\ [](\A k \in DOMAIN checked :
             checked[k].done =>
                \A kind \in {"low_balance", "balance_drop"} :
                   ObsAlerts(k, kind) # {} => DeliveredToAll(k, kind))

\* No admin could be reached: the first account's low_balance alert is
\* recorded, its send failed for every admin, and the sweep went on to the
\* second account and to the interval sleep.
C15_Witness ==
    /\ blocked = Admins
    /\ \E t \in DOMAIN tasks :
          /\ tasks[t].pc = "sleep"
          /\ Len(tasks[t].outcomes) = 2
          /\ tasks[t].outcomes[1].status = "ok"
          /\ LET k == tasks[t].outcomes[1].obs IN
             /\ checked[k].done
             /\ ObsAlerts(k, "low_balance") # {}
             /\ DeliveredToAll(k, "low_balance")
             /\ \A n \in ObsMessages(k, "low_balance") : messages[n].result = "failed"

\* The step handles a /bind_aliyun command.
BindHandledNow == handled'.command # handled.command

\* C21: a /bind_aliyun command whose provider fetch failed leaves the account
\* table and the history unchanged, and a uid gets an account row only in the
\* step of a /bind_aliyun command for that uid whose fetch succeeded.
C21_BindOnlyAfterFetchSucceeded ==
    [][/\ (BindHandledNow /\ ~handled'.success) =>
             (accounts' = accounts /\ balance_history' = balance_history)
       /\ \A uid \in UidSet :
             (~HasUid(accounts, uid) /\ HasUid(accounts', uid)) =>
                (BindHandledNow /\ handled'.uid = uid /\ handled'.success)]_vars

\* The first command was /bind_aliyun for a uid that is not bound and the
\* provider fetch failed: the uid is still not bound.
C21_Witness ==
    /\ handled.command = MaxCommands
    /\ ~handled.success
    /\ commands = MaxCommands - 1
    /\ handled.uid = Uids[2]
    /\ ~HasUid(accounts, Uids[2])
    /\ Len(accounts) = 1

\* Every scheduler task has terminated.
AllTasksDone == \A t \in DOMAIN tasks : tasks[t].pc = "done"

\* The monitor is Stopped and no stop_monitoring() call is still awaiting.
Stopped == ~monitoring /\ stop_await = 0

\* C22: stop_monitoring() on a Stopped monitor changes nothing.  When a
\* stop_monitoring() call on a Running monitor returns, the task it cancelled
\* has terminated and, unless start_monitoring() was called meanwhile, the
\* monitor is Stopped with every task terminated.  While the monitor stays
\* Stopped no task is alive, the store is not written and no message is sent.
C22_StopIsFinal ==
    /\ [][(StopMonitoring /\ ~monitoring) =>
             UNCHANGED <<env, chat, bot, store, messages, monitoring, monitor_task, tasks,
                         stop_await, checked>>]_vars
    /\ [][(stop_await # 0 /\ stop_await' = 0) =>
             /\ tasks'[stop_await].pc = "done"
             /\ monitor_task' = stop_await => (~monitoring' /\ AllTasksDone')]_vars
    /\ [](Stopped => AllTasksDone)
    /\ [][(Stopped /\ Stopped') => UNCHANGED <<store, messages, checked>>]_vars

\* stop_monitoring() was called while the task awaited a send_message call of
\* a check, and has returned: the monitor is Stopped and the task terminated.
C22_Witness ==
    /\ calls = <<"start", "stop">>
    /\ Stopped
    /\ Len(tasks) = 1
    /\ tasks[1].pc = "done"
    /\ Len(checked) = 1
    /\ \E n \in DOMAIN messages : messages[n].result = "cancelled"

\* C23: in the step in which a check of the monitor stores a fetched balance,
\* the previous balance it evaluates is the last_balance the account had in
\* the store before the step, and the current balance is the fetched value the
\* step stores: never the new balance against itself.
C23_PreviousIsPriorCurrentIsFetched ==
    [][Len(checked') > Len(checked) =>
          LET obs == checked'[Len(checked')] IN
          \A n \in DOMAIN accounts :
             accounts[n].uid = obs.uid =>
                /\ obs.last_balance = accounts[n].last_balance
                /\ \A m \in DOMAIN accounts' :
                      accounts'[m].uid = obs.uid =>
                         accounts'[m].last_balance = obs.current_balance
                /\ balance_history'[Len(balance_history')] =
                      HistoryRow(obs.uid, obs.current_balance)]_vars

\* The account table after one write of `balance` for `uid`: that row's
\* last_balance is set and every other row is as it was.
OnlyLastBalanceSet(uid, balance) ==
    /\ Len(accounts') = Len(accounts)
    /\ \A n \in DOMAIN accounts :
          accounts'[n] = IF accounts[n].uid = uid
                         THEN [accounts[n] EXCEPT !.last_balance = balance]
                         ELSE accounts[n]

\* C24: the step of a successful fetch of the monitor appends one
\* balance_history row, of that account and the fetched value, and sets that
\* account's last_balance to it, as one write: both or, when the store fails
\* the write, neither; every other row of both tables is as it was, and no
\* other step of the monitor writes either table.
C24_OneAtomicObservationPerFetch ==
    [][IF Len(checked') > Len(checked)
       THEN LET obs == checked'[Len(checked')] IN
            \/ /\ balance_history' =
                     Append(balance_history, HistoryRow(obs.uid, obs.current_balance))
               /\ OnlyLastBalanceSet(obs.uid, obs.current_balance)
            \/ /\ faulty
               /\ UNCHANGED <<accounts, balance_history>>
       ELSE UNCHANGED <<accounts, balance_history>>]_vars

\* Over a store that may fail, the write of the first account's check failed
\* and the write of the second account's check committed: one row was added
\* to the history, and only the second account's last_balance is set.
C24_Witness ==
    /\ faulty
    /\ Len(checked) = 2
    /\ checked[1].uid = Uids[2]
    /\ checked[2].uid = Uids[1]
    /\ accounts[1] = AccountRow(Uids[2], LowThresholds[2], DropThresholds[2], 0)
    /\ accounts[2].last_balance = checked[2].current_balance
    /\ Len(balance_history) = 3
    /\ balance_history[3] = HistoryRow(Uids[1], checked[2].current_balance)

\* The task is inside a sweep: checking an account or awaiting a send of it.
InSweep(task) == task.pc \in {"iter", "send"}

\* C25: a started task goes straight to the while test and its first sweep,
\* with no sleep before it; a sweep that has listed the accounts ends in the
\* interval sleep, never back at the while test; and the while test is reached
\* again only from the interval sleep, or from the fallback sleep that follows
\* a sweep that raised.  So two sweeps of a task that listed the accounts
\* always have an interval sleep between them.
C25_SweepThenSleepAlternate ==
    [][\A t \in DOMAIN tasks :
          LET before == tasks[t].pc
              after == tasks'[t].pc
          IN  /\ before = "created" => after \in {"created", "loop", "done"}
              /\ InSweep(tasks[t]) => after \in {"iter", "send", "sleep", "done"}
              /\ (before = "loop" /\ after = "sleep") => tasks'[t].accts = <<>>
              /\ before = "sleep" => after \in {"sleep", "loop", "done"}
              /\ (after = "loop" /\ before # "loop") =>
                    before \in {"created", "sleep", "backoff"}
              /\ (after = "backoff" /\ before # "backoff") => before = "loop"
              /\ (after = "done" /\ before # "done") => tasks[t].cancel]_vars

\* A task is in its second sweep: its first sweep made the one check the
\* provider answered, the interval sleep has returned, and the accounts are
\* listed again.
C25_Witness ==
    \E t \in DOMAIN tasks :
       /\ tasks[t].pc = "iter"
       /\ tasks[t].outcomes = <<>>
       /\ ~tasks[t].retry
       /\ Len(checked) = 1
       /\ checked[1].task = t
       /\ checked[1].done

\* C26: the delay of the fallback sleep a task awaits after a sweep raised
\* differs from the check interval and is strictly longer than it, for the
\* default interval too.
C26_BackoffLongerThanInterval ==
    \A t \in DOMAIN tasks :
       tasks[t].pc = "backoff" => tasks[t].delay > CHECK_INTERVAL

\* C26 as amended: the fallback sleep is a fixed delay of 60 seconds whatever
\* the check interval is, and the interval sleep lasts the check interval; the
\* fallback is shorter than the default interval of 300 seconds.
C26_BackoffIsFixed ==
    /\ FallbackSleep = 60
    /\ FallbackSleep < DefaultCheckInterval
    /\ \A t \in DOMAIN tasks :
          /\ tasks[t].pc = "backoff" => tasks[t].delay = 60
          /\ tasks[t].pc = "sleep" => tasks[t].delay = CHECK_INTERVAL

\* With the default interval a task awaits the fallback sleep after a sweep
\* raised, and its previous sweep had ended in the interval sleep.
C26_Witness ==
    /\ CHECK_INTERVAL = DefaultCheckInterval
    /\ \E t \in DOMAIN tasks :
          /\ tasks[t].pc = "backoff"
          /\ tasks[t].delay < CHECK_INTERVAL
          /\ Len(checked) = 1
          /\ checked[1].done

\* C27: when stop_monitoring() is called during the check of an account, the
\* checks the task made before it have returned, and is_monitoring() is false
\* only once the operation in flight has resolved: while the monitor reports
\* Stopped no task is inside a check.
C27_StoppedOnlyAfterInFlightResolved ==
    /\ \A t \in DOMAIN tasks : ~is_monitoring => ~InSweep(tasks[t])
    /\ \A k1, k2 \in DOMAIN checked :
          (k1 < k2 /\ checked[k1].task = checked[k2].task) => checked[k1].done

\* C28: every alert message an admin has received has a row in alert_history
\* of the same account, kind and balance.
C28_NoDeliveryWithoutRecord ==
    \A n \in DOMAIN messages :
       messages[n].result = "ok" =>
          \E a \in DOMAIN alert_history :
             /\ alert_history[a].uid = messages[n].uid
             /\ alert_history[a].alert_type = messages[n].alert_type
             /\ alert_history[a].balance = checked[messages[n].obs].current_balance

\* The resolved sends of the alert of this kind for observation k to one admin.
SendsTo(k, kind, admin) == {n \in ObsMessages(k, kind) : messages[n].chat_id = admin}

AlertKinds == {"low_balance", "balance_drop"}

\* C29: a check records at most one alert row of each kind and sends each
\* admin at most one message for it; and the two conditions fire on their own:
\* in a check that has returned the low_balance alert is there exactly when
\* the balance is at or below the low threshold and the balance_drop alert
\* exactly when the balance dropped, whether or not the other one fired.
C29_OneAlertPerConditionPerCheck ==
    \A k \in DOMAIN checked :
       LET c == checked[k] IN
       /\ \A kind \in AlertKinds :
             /\ Cardinality(ObsAlerts(k, kind)) <= 1
             /\ \A a \in Admins : Cardinality(SendsTo(k, kind, a)) <= 1
             /\ ObsAlerts(k, kind) = {} => ObsMessages(k, kind) = {}
       /\ c.done =>
             /\ (ObsAlerts(k, "low_balance") # {}) <=> (c.current_balance <= c.low_threshold)
             /\ (ObsAlerts(k, "balance_drop") # {}) <=>
                   (c.last_balance > 0 /\ c.last_balance - c.current_balance >= c.drop_threshold)

\* One check fired both conditions and has returned, with one row and one
\* message to each admin for each; another check fired only the low_balance
\* condition or none.
C29_Witness ==
    \E k, m \in DOMAIN checked :
       /\ checked[k].done
       /\ \A kind \in AlertKinds :
             /\ Cardinality(ObsAlerts(k, kind)) = 1
             /\ \A a \in Admins : Cardinality(SendsTo(k, kind, a)) = 1
       /\ checked[m].done
       /\ ObsAlerts(m, "balance_drop") = {}

\* C30: every sweep begins by reading the account list as the store holds it
\* then, whatever an earlier sweep of the task had read; every check of the
\* sweep is of an account of that list; and the sweep ends when each account
\* of the list has been attempted.  So an account bound before the sweep began
\* is checked in it, and one unbound before it began is not.
C30_ListReadEverySweep ==
    [][\A t \in DOMAIN tasks :
          /\ (tasks[t].pc = "loop" /\ tasks'[t].pc \in {"iter", "sleep"}) =>
                tasks'[t].accts = accounts
          /\ (tasks[t].pc # "loop" /\ tasks'[t].pc \notin {"loop", "done", "backoff"}) =>
                tasks'[t].accts = tasks[t].accts
          /\ (Len(checked') > Len(checked) /\ checked'[Len(checked')].task = t) =>
                /\ tasks[t].i \in DOMAIN tasks[t].accts
                /\ checked'[Len(checked')].uid = tasks[t].accts[tasks[t].i].uid
          /\ (InSweep(tasks[t]) /\ tasks'[t].pc = "sleep") =>
                Len(tasks'[t].outcomes) = Len(tasks[t].accts)]_vars

\* The first sweep checked the account bound at the start; /unbind_aliyun
\* removed it, and the task's next sweep listed no account and went to sleep.
C30_Witness ==
    /\ accounts = <<>>
    /\ Len(checked) = 1
    /\ checked[1].uid = Uids[1]
    /\ checked[1].done
    /\ \E t \in DOMAIN tasks :
          /\ checked[1].task = t
          /\ tasks[t].pc = "sleep"
          /\ tasks[t].accts = <<>>
          /\ tasks[t].outcomes = <<>>

\* The step is a step of a check by the task t: the task moved, and the store
\* was written, a fetch was recorded or a send_message call resolved.
CheckStepOf(t) ==
    /\ t \in DOMAIN tasks
    /\ tasks'[t] # tasks[t]
    /\ \/ store' # store
       \/ checked' # checked
       \/ /\ Len(messages') > Len(messages)
          /\ messages'[Len(messages')].result # "cancelled"

\* C31: in every order of start_monitoring() and stop_monitoring() calls, a
\* start while an earlier stop still awaits its cancelled task included, at
\* most one scheduler task is neither finished nor cancelled, the monitor is
\* Running exactly when there is one, and every step of an account check is a
\* step of that task, the one monitor_task names, taken while Running.
C31_OneSchedulerTask ==
    /\ [](Cardinality(ActiveTasks) <= 1)
    /\ [](monitoring <=> Cardinality(ActiveTasks) = 1)
    /\ [][\A t \in DOMAIN tasks :
             CheckStepOf(t) => (monitoring /\ t = monitor_task /\ ActiveTasks = {t})]_vars

\* start_monitoring() was called while stop_monitoring() still awaits the task
\* it cancelled: the monitor is Running on the new task, which has begun a
\* check, and the old task, not yet resumed, is cancelled.
C31_Witness ==
    /\ calls = <<"stop", "start">>
    /\ stop_await = 1
    /\ tasks[1].pc # "done"
    /\ tasks[1].cancel
    /\ monitoring
    /\ monitor_task = 2
    /\ ActiveTasks = {2}
    /\ tasks[2].pc = "send"

\* The step handles an /unbind_aliyun command.
UnbindHandledNow == unbound'.command # unbound.command

\* C32: over a store whose writes commit, unbind_aliyun_account(uid) returns
\* True exactly when an account with that uid was bound before the call, and
\* after a call that returned True no account has that uid; whether the uid
\* had balance-history or alert rows makes no difference.
C32_UnbindReturnsWhetherBound ==
    [][(UnbindHandledNow /\ ~faulty) =>
          /\ unbound'.returned <=> HasUid(accounts, unbound'.uid)
          /\ unbound'.returned => ~HasUid(accounts', unbound'.uid)]_vars

\* The step handles an update of a chat.
UpdateHandledNow == update'.command # update.command

\* C33: a credential submission that fails verification changes nothing: the
\* client and the keys it was built from are those from before the submission,
\* no table of the store is written, and the chat is still waiting for keys.
C33_FailedVerificationChangesNothing ==
    [][(UpdateHandledNow /\ update'.kind = "credentials" /\ ~update'.verified) =>
          /\ client' = client
          /\ credentials' = credentials
          /\ UNCHANGED <<store, system_config>>
          /\ update'.chat_id \in waiting_for_credentials']_vars

\* C34: only an admin's chat is ever waiting for keys, and a step that handles
\* an update of a chat that is no admin's leaves the account table with its
\* thresholds and balances, the history and alert tables, the client and its
\* keys, the saved keys, the waiting chats and the monitor with its tasks as
\* they were: a run and the run without its non-admin updates reach the same
\* state.
C34_NonAdminChangesNothing ==
    /\ [](\A chat_id \in waiting_for_credentials : is_admin(chat_id))
    /\ [][(UpdateHandledNow /\ ~is_admin(update'.chat_id)) =>
             UNCHANGED <<env, store, credentials, system_config, waiting_for_credentials,
                         ALIYUN_RESELLER_TEST_UID, monitoring, monitor_task, tasks,
                         stop_await, messages, checked, calls, query, handled,
                         unbound>>]_vars

\* While the client is not configured and an admin's chat is waiting for keys,
\* a chat that is no admin's has sent a message with keys the provider accepts:
\* the client is still not configured and no keys are held or saved.
C34_Witness ==
    /\ update.chat_id = "x1"
    /\ update.kind = "message"
    /\ update.text = "valid"
    /\ waiting_for_credentials # {}
    /\ ~is_configured
    /\ credentials = "none"
    /\ system_config = "none"

====
